---------------------------- MODULE Spec2Model ----------------------------
(***************************************************************************)
(* Model of app.py (Enacted Federal Legislation Tracker): the normalizer   *)
(* load_data / get_filtered_data, the facet filter of main(), and the view *)
(* builders create_network_graph, create_sankey_diagram,                   *)
(* generate_scatter_plot and create_timeline_plot.                         *)
(*                                                                         *)
(* Strings are sequences of one-character strings, so that str.split,      *)
(* str.strip and sorted() are computed and not assumed.  A missing cell    *)
(* (pandas NaN / None) is the one-element sequence NaN, whose element is   *)
(* not a character.  A Timestamp is <<day, hour>>; NaT is <<"NaT">>.       *)
(***************************************************************************)
EXTENDS Integers, Sequences, FiniteSets, TLC

VARIABLES
    pc,             \* position in the program
    raw,            \* the sheet as read by pd.read_excel: a sequence of raw rows
    df,             \* the frame returned by load_data
    data,           \* the frame returned by get_filtered_data (working set)
    sel,            \* the widgets of the basic filter of main()
    filtered_data,  \* the result of the basic filter of main()
    adv_sel,        \* the widgets of the advanced filter of main()
    adv_data,       \* the result of the advanced filter of main()
    net,            \* the pyvis Network built by create_network_graph
    sankey,         \* labels and links built by create_sankey_diagram
    scatter,        \* call and outcome of generate_scatter_plot
    timeline        \* the intervals charted by create_timeline_plot

vars == <<pc, raw, df, data, sel, filtered_data, adv_sel, adv_data, net, sankey,
          scatter, timeline>>

----------------------------------------------------------------------------
(* Bounds of the model *)

MaxRows == 2
MaxAuthorLen == 1

----------------------------------------------------------------------------
(* Values *)

NaN == <<"NaN">>
NaT == <<"NaT">>
None == <<"None">>

Whitespace == {" ", "\t", "\n"}

\* Code points of the characters used, for sorted() on str.
Ord(c) ==
    CASE c = " " -> 32
      [] c = "," -> 44
      [] c = "A" -> 65
      [] c = "B" -> 66
      [] c = "S" -> 83
      [] c = "T" -> 84
      [] c = "X" -> 88
      [] OTHER -> 127

isna(x) == x = NaN \/ x = NaT \/ x = None
notna(x) == ~isna(x)

\* Python truth value of a cell: "" and None are falsy; float nan is truthy.
Truthy(x) == x # <<>> /\ x # None

RECURSIVE SeqToSet(_)
SeqToSet(s) == IF s = <<>> THEN {} ELSE {Head(s)} \cup SeqToSet(Tail(s))

RECURSIVE Concat(_)
Concat(ss) == IF ss = <<>> THEN <<>> ELSE Head(ss) \o Concat(Tail(ss))

RECURSIVE SeqsUpTo(_, _)
SeqsUpTo(S, n) ==
    IF n = 0 THEN {<<>>}
    ELSE LET shorter == SeqsUpTo(S, n - 1)
         IN  shorter \cup {Append(s, x) : s \in shorter, x \in S}

----------------------------------------------------------------------------
(* load_data *)

\* str.split(","): every comma ends a piece; k commas give k + 1 pieces.
RECURSIVE SplitAcc(_, _, _)
SplitAcc(s, cur, acc) ==
    IF s = <<>> THEN Append(acc, cur)
    ELSE IF Head(s) = "," THEN SplitAcc(Tail(s), <<>>, Append(acc, cur))
    ELSE SplitAcc(Tail(s), Append(cur, Head(s)), acc)

\* Series.str.split(","): a missing cell stays missing.
StrSplit(s) == IF isna(s) THEN NaN ELSE SplitAcc(s, <<>>, <<>>)

RECURSIVE LStrip(_)
LStrip(s) ==
    IF s # <<>> /\ Head(s) \in Whitespace THEN LStrip(Tail(s)) ELSE s

RECURSIVE RStrip(_)
RStrip(s) ==
    IF s # <<>> /\ s[Len(s)] \in Whitespace
    THEN RStrip(SubSeq(s, 1, Len(s) - 1)) ELSE s

\* A strip that forgets the right end.
StripLeftOnly(s) == IF isna(s) THEN NaN ELSE LStrip(s)

\* Series.str.strip(): both ends, a missing cell stays missing.
StrStrip(s) == IF isna(s) THEN NaN ELSE RStrip(LStrip(s))

\* The title text is a sequence of words; a word beginning a URL is "http://u".
\* re "http[^\s]+" removes the URL word and every non-space word glued to it.
RECURSIVE RemoveUrls(_, _)
RemoveUrls(s, inUrl) ==
    IF s = <<>> THEN <<>>
    ELSE IF Head(s) = "http://u" THEN RemoveUrls(Tail(s), TRUE)
    ELSE IF Head(s) \in Whitespace THEN <<Head(s)>> \o RemoveUrls(Tail(s), FALSE)
    ELSE IF inUrl THEN RemoveUrls(Tail(s), TRUE)
    ELSE <<Head(s)>> \o RemoveUrls(Tail(s), FALSE)

\* df["Title and Link"].str.replace(r"http[^\s]+", "", regex=True).str.strip()
ExtractTitle(t) == IF isna(t) THEN NaN ELSE StrStrip(RemoveUrls(t, FALSE))

\* pd.to_datetime(..., errors="coerce"): a datetime cell is kept, a missing
\* cell and a text that is no date become NaT.
to_datetime_coerce(x) ==
    IF x[1] = "datetime" THEN <<x[2], x[3]>> ELSE NaT

\* The columns of one sheet row after lines 36-61, before the explode.
PrepRow(row, i) ==
    [Index           |-> i,
     Authors         |-> row.Authors,
     Date            |-> to_datetime_coerce(row.Date),
     PolicyArea      |-> row.PolicyArea,
     TitleAndLink    |-> row.TitleAndLink,
     EnactmentMethod |-> row.EnactmentMethod,
     Link            |-> row.Link,
     Title           |-> ExtractTitle(row.TitleAndLink)]

WithAuthor(r, a) ==
    [Index           |-> r.Index,
     Authors         |-> r.Authors,
     Date            |-> r.Date,
     PolicyArea      |-> r.PolicyArea,
     TitleAndLink    |-> r.TitleAndLink,
     EnactmentMethod |-> r.EnactmentMethod,
     Link            |-> r.Link,
     Title           |-> r.Title,
     Author          |-> a]

\* DataFrame.explode on one row: a list cell gives one row per element, in
\* list order and under the row's index label; a scalar cell gives the row.
ExplodeRow(r, cell) ==
    IF isna(cell) THEN <<WithAuthor(r, NaN)>>
    ELSE [j \in 1..Len(cell) |-> WithAuthor(r, cell[j])]

\* df.assign(Author=df["Authors"].str.split(",")).explode("Author")
Explode(rows) ==
    Concat([i \in 1..Len(rows) |-> ExplodeRow(rows[i], StrSplit(rows[i].Authors))])

\* load_data on the rows of the sheet.  A missing file (lines 28-30) gives
\* the empty frame, as a sheet without rows does.
load_data(sheet) ==
    LET prepared == [i \in 1..Len(sheet) |-> PrepRow(sheet[i], i - 1)]
        exploded == Explode(prepared)
    IN  [p \in 1..Len(exploded) |->
            WithAuthor(exploded[p], StrStrip(exploded[p].Author))]

\* A dropna that keeps every row.
DropNothing(rows) == rows

\* data.dropna(subset=["Date"]).reset_index(drop=True)
RECURSIVE DropNaDate(_)
DropNaDate(rows) ==
    IF rows = <<>> THEN <<>>
    ELSE IF isna(Head(rows).Date) THEN DropNaDate(Tail(rows))
    ELSE <<Head(rows)>> \o DropNaDate(Tail(rows))

ResetIndex(rows) ==
    [p \in 1..Len(rows) |-> [rows[p] EXCEPT !.Index = p - 1]]

get_filtered_data(frame) ==
    IF frame # <<>> THEN ResetIndex(DropNaDate(frame)) ELSE frame

----------------------------------------------------------------------------
(* Inputs of the normalizer *)

AuthorChars == {"A", " ", ","}

\* Author cells: every short text over AuthorChars, some longer lists of
\* authors ("A,B", "A, B", "A,,B", " A ,B ", "A,", ", ", " A "), an empty cell.
LongerAuthors ==
    { <<"A", ",", "B">>, <<"A", ",", " ", "B">>, <<"A", ",", ",", "B">>,
      <<" ", "A", " ", ",", "B", " ">>, <<"A", ",">>, <<",", " ">>,
      <<" ", "A", " ">> }

RawAuthors ==
    (SeqsUpTo(AuthorChars, MaxAuthorLen) \ {<<>>}) \cup LongerAuthors \cup {NaN}

\* The other cells of a sheet row: a dated bill, a bill whose date cell is
\* empty, and a bill whose date cell holds a text that is no date.
RowRest ==
    { [Date |-> <<"datetime", 1, 0>>, PolicyArea |-> <<"X">>,
       TitleAndLink |-> <<"http://u", " ", "T">>, EnactmentMethod |-> <<"S">>,
       Link |-> <<"u">>],
      [Date |-> <<"missing">>, PolicyArea |-> NaN,
       TitleAndLink |-> <<"T", " ", "http://u", "x">>, EnactmentMethod |-> <<"S">>,
       Link |-> None],
      [Date |-> <<"text", "n/a">>, PolicyArea |-> <<"X">>,
       TitleAndLink |-> <<"B">>, EnactmentMethod |-> NaN,
       Link |-> None] }

RawRows ==
    { [Authors         |-> a,
       Date            |-> x.Date,
       PolicyArea      |-> x.PolicyArea,
       TitleAndLink    |-> x.TitleAndLink,
       EnactmentMethod |-> x.EnactmentMethod,
       Link            |-> x.Link] : a \in RawAuthors, x \in RowRest }

\* The values of the variables a step has not set yet.
NoSel ==
    [show_all |-> FALSE, search_option |-> "", author |-> {}, policy |-> {},
     method |-> {}, date_range |-> <<>>]
NoNet == [nodes |-> <<>>, edges |-> <<>>, raised |-> ""]
NoSankey == [labels |-> <<>>, links |-> <<>>]
NoScatter == [x_col |-> "", y_col |-> "", color_col |-> "", points |-> <<>>, raised |-> ""]

NoTimeline == [intervals |-> <<>>, raised |-> ""]

----------------------------------------------------------------------------
(* Normalizer: load_data, then get_filtered_data *)

InitLoad ==
    /\ pc = "start"
    /\ \E n \in 0..MaxRows : raw \in [1..n -> RawRows]
    /\ df = <<>>
    /\ data = <<>>
    /\ sel = NoSel
    /\ filtered_data = <<>>
    /\ adv_sel = NoSel
    /\ adv_data = <<>>
    /\ net = NoNet
    /\ sankey = NoSankey
    /\ scatter = NoScatter
    /\ timeline = NoTimeline

LoadData ==
    /\ pc = "start"
    /\ df' = load_data(raw)
    /\ pc' = "loaded"
    /\ UNCHANGED <<raw, data, sel, filtered_data, adv_sel, adv_data, net, sankey,
                   scatter, timeline>>

GetFilteredData ==
    /\ pc = "loaded"
    /\ data' = get_filtered_data(df)
    /\ pc' = "ready"
    /\ UNCHANGED <<raw, df, sel, filtered_data, adv_sel, adv_data, net, sankey,
                   scatter, timeline>>

NextLoad == LoadData \/ GetFilteredData

SpecLoad == InitLoad /\ [][NextLoad]_vars

----------------------------------------------------------------------------
(* main(): facet options and the two filters *)

\* A column of a record, by its name in the frame.
Col(r, name) ==
    CASE name = "Authors"          -> r.Authors
      [] name = "Date"             -> r.Date
      [] name = "Policy Area"      -> r.PolicyArea
      [] name = "Title and Link"   -> r.TitleAndLink
      [] name = "Enactment Method" -> r.EnactmentMethod
      [] name = "Link"             -> r.Link
      [] name = "Title"            -> r.Title
      [] name = "Author"           -> r.Author

Columns ==
    {"Authors", "Date", "Policy Area", "Title and Link", "Enactment Method",
     "Link", "Title", "Author"}

\* data[name].dropna().unique(), as a set.
Unique(frame, name) ==
    {Col(frame[p], name) : p \in {q \in 1..Len(frame) : notna(Col(frame[q], name))}}

\* Timestamp comparison.
TsLeq(a, b) == a[1] < b[1] \/ (a[1] = b[1] /\ a[2] <= b[2])

\* Timestamp.date(): the calendar day, the time of day dropped.
DateOf(ts) == ts[1]

\* pd.to_datetime(d) of a datetime.date: midnight of that day.
to_datetime(d) == <<d, 0>>

\* data["Date"].min().date() and data["Date"].max().date()
min_date(frame) ==
    DateOf(CHOOSE t \in Unique(frame, "Date") :
              \A u \in Unique(frame, "Date") : TsLeq(t, u))
max_date(frame) ==
    DateOf(CHOOSE t \in Unique(frame, "Date") :
              \A u \in Unique(frame, "Date") : TsLeq(u, t))

\* Series.isin(values)
isin(x, values) == x \in values

\* (data["Date"] >= pd.to_datetime(date_range[0])) &
\* (data["Date"] <= pd.to_datetime(date_range[1]))
DateMask(r, date_range) ==
    /\ TsLeq(to_datetime(date_range[1]), r.Date)
    /\ TsLeq(r.Date, to_datetime(date_range[2]))

\* The boolean mask of lines 457-463 and 561-567 on one record.
Mask(r, author_filter, policy_filter, enactment_filter, date_range) ==
    /\ isin(r.Author, author_filter) \/ author_filter = {}
    /\ isin(r.PolicyArea, policy_filter) \/ policy_filter = {}
    /\ isin(r.EnactmentMethod, enactment_filter) \/ enactment_filter = {}
    /\ DateMask(r, date_range)

\* data[mask]: the records the mask keeps, in order, under their index labels.
RECURSIVE ApplyFilter(_, _)
ApplyFilter(frame, w) ==
    IF frame = <<>> THEN <<>>
    ELSE IF Mask(Head(frame), w.author, w.policy, w.method, w.date_range)
         THEN <<Head(frame)>> \o ApplyFilter(Tail(frame), w)
         ELSE ApplyFilter(Tail(frame), w)

\* What a date slider with the given ends can return.
SliderValues(lo, hi) == {v \in (lo..hi) \X (lo..hi) : v[1] <= v[2]}

\* The widget values of the basic filter, lines 419-455: the radio picks one
\* facet, the other three keep their defaults.  The author multiselect opens
\* on DEFAULT_AUTHOR_NAME and can be set to any subset of the options.
BasicWidgets(frame) ==
    LET dflt == <<min_date(frame), max_date(frame)>>
        W(o, a, p, m, d) ==
            [show_all |-> FALSE, search_option |-> o, author |-> a, policy |-> p,
             method |-> m, date_range |-> d]
    IN       {W("Author", a, {}, {}, dflt) : a \in SUBSET Unique(frame, "Author")}
       \cup  {W("Method of Enactment", {}, {}, m, dflt) :
                 m \in SUBSET Unique(frame, "Enactment Method")}
       \cup  {W("Policy Area", {}, p, {}, dflt) :
                 p \in SUBSET Unique(frame, "Policy Area")}
       \cup  {W("Date Range", {}, {}, {}, d) : d \in SliderValues(dflt[1], dflt[2])}

\* The widget values of the advanced filter, lines 545-559.
AdvancedWidgets(frame) ==
    [show_all      : {FALSE},
     search_option : {"Advanced"},
     author        : SUBSET Unique(frame, "Author"),
     policy        : SUBSET Unique(frame, "Policy Area"),
     method        : SUBSET Unique(frame, "Enactment Method"),
     date_range    : SliderValues(min_date(frame), max_date(frame))]

\* Sheets for the filter: authors A and B, policies X and Y, methods S and V,
\* bills dated day 1, day 2 at midnight and day 2 at noon, an undated bill.
FilterRows ==
    { [Authors |-> <<"A">>, Date |-> <<"datetime", 1, 0>>, PolicyArea |-> <<"X">>,
       TitleAndLink |-> <<"T">>, EnactmentMethod |-> <<"S">>, Link |-> None],
      [Authors |-> <<"A", ",", "B">>, Date |-> <<"datetime", 2, 0>>,
       PolicyArea |-> <<"Y">>, TitleAndLink |-> <<"T">>,
       EnactmentMethod |-> <<"S">>, Link |-> None],
      [Authors |-> <<"B">>, Date |-> <<"datetime", 2, 12>>, PolicyArea |-> <<"X">>,
       TitleAndLink |-> <<"T">>, EnactmentMethod |-> <<"V">>, Link |-> None],
      [Authors |-> NaN, Date |-> <<"datetime", 1, 12>>, PolicyArea |-> NaN,
       TitleAndLink |-> <<"T">>, EnactmentMethod |-> NaN, Link |-> None],
      [Authors |-> <<"A">>, Date |-> <<"missing">>, PolicyArea |-> <<"X">>,
       TitleAndLink |-> <<"T">>, EnactmentMethod |-> <<"S">>, Link |-> None] }

InitFilter ==
    /\ pc = "start"
    /\ \E n \in 0..MaxRows : raw \in [1..n -> FilterRows]
    /\ df = <<>>
    /\ data = <<>>
    /\ sel = NoSel
    /\ filtered_data = <<>>
    /\ adv_sel = NoSel
    /\ adv_data = <<>>
    /\ net = NoNet
    /\ sankey = NoSankey
    /\ scatter = NoScatter
    /\ timeline = NoTimeline

\* Lines 405-408: no data, main() reports it and returns.
MainNoData ==
    /\ pc = "ready"
    /\ data = <<>>
    /\ pc' = "nodata"
    /\ UNCHANGED <<raw, df, data, sel, filtered_data, adv_sel, adv_data, net, sankey,
                   scatter, timeline>>

\* Lines 411-414: the "See all bills" button.
SeeAll ==
    /\ pc = "ready"
    /\ data # <<>>
    /\ sel' = [NoSel EXCEPT !.show_all = TRUE]
    /\ filtered_data' = data
    /\ pc' = "filtered"
    /\ UNCHANGED <<raw, df, data, adv_sel, adv_data, net, sankey, scatter, timeline>>

\* Lines 415-463: the basic filter.
BasicFilter ==
    /\ pc = "ready"
    /\ data # <<>>
    /\ \E w \in BasicWidgets(data) :
          /\ sel' = w
          /\ filtered_data' = ApplyFilter(data, w)
    /\ pc' = "filtered"
    /\ UNCHANGED <<raw, df, data, adv_sel, adv_data, net, sankey, scatter, timeline>>

\* Lines 540-542: advanced mode while all bills are shown.
AdvancedSeeAll ==
    /\ pc = "filtered"
    /\ sel.show_all
    /\ adv_sel' = [NoSel EXCEPT !.show_all = TRUE]
    /\ adv_data' = filtered_data
    /\ pc' = "advanced"
    /\ UNCHANGED <<raw, df, data, sel, filtered_data, net, sankey, scatter, timeline>>

\* Lines 543-567: the advanced filter.
AdvancedFilter ==
    /\ pc = "filtered"
    /\ ~sel.show_all
    /\ \E w \in AdvancedWidgets(data) :
          /\ adv_sel' = w
          /\ adv_data' = ApplyFilter(data, w)
    /\ pc' = "advanced"
    /\ UNCHANGED <<raw, df, data, sel, filtered_data, net, sankey, scatter, timeline>>

NextFilter ==
    \/ LoadData
    \/ GetFilteredData
    \/ MainNoData
    \/ SeeAll
    \/ BasicFilter
    \/ AdvancedSeeAll
    \/ AdvancedFilter

SpecFilter == InitFilter /\ [][NextFilter]_vars

----------------------------------------------------------------------------
(* create_network_graph *)

\* isinstance(n_id, str): a cell that holds a text (NaN is a float).
IsStr(x) == x # NaN /\ x # NaT /\ x # None

NodeIds(g) == {g.nodes[p].id : p \in 1..Len(g.nodes)}

\* A Network built with directed=True.
directed_passed == TRUE

\* Network(...) at line 178 passes no directed=: pyvis builds an undirected graph.
directed == FALSE

\* pyvis Network.add_node: asserts that the id is a str or an int, and appends
\* the node unless its id is already there.
add_node(g, n_id, title, color) ==
    IF g.raised # "" THEN g
    ELSE IF ~IsStr(n_id) THEN [g EXCEPT !.raised = "AssertionError"]
    ELSE IF n_id \in NodeIds(g) THEN g
    ELSE [g EXCEPT !.nodes = Append(@, [id |-> n_id, title |-> title, color |-> color])]

\* pyvis Network.add_edge: asserts that both ends are nodes; in an undirected
\* graph an edge between the same two nodes, in either direction, is not
\* appended again.
add_edge(g, source, to) ==
    IF g.raised # "" THEN g
    ELSE IF source \notin NodeIds(g) \/ to \notin NodeIds(g)
         THEN [g EXCEPT !.raised = "AssertionError"]
    ELSE IF /\ ~directed
            /\ \E p \in 1..Len(g.edges) :
                  \/ (source = g.edges[p].to /\ to = g.edges[p].from)
                  \/ (source = g.edges[p].from /\ to = g.edges[p].to)
         THEN g
    ELSE [g EXCEPT !.edges = Append(@, [from |-> source, to |-> to])]

\* added_nodes.add(x), not reached once a call has raised.
added(g, x) == IF g.raised # "" THEN g ELSE [g EXCEPT !.added_nodes = @ \cup {x}]

\* bill_date.strftime("%Y-%m-%d") or "N/A"
date_str(bill_date) == IF notna(bill_date) THEN <<"date", DateOf(bill_date)>> ELSE <<"N/A">>

\* Lines 196-204: the bill node.
AddBillNode(g, row) ==
    IF row.Title \notin g.added_nodes
    THEN added(add_node(g, row.Title,
                        <<"Bill", row.Title, date_str(row.Date),
                          IF Truthy(row.Link) THEN row.Link ELSE None>>,
                        "#ffa500"),
               row.Title)
    ELSE g

\* An author node that takes the place of a node already there under its id.
AddAuthorNodeOverwriting(g, row) ==
    IF g.raised # "" \/ ~Truthy(row.Author) THEN g
    ELSE IF ~IsStr(row.Author) THEN [g EXCEPT !.raised = "AssertionError"]
    ELSE LET n == [id |-> row.Author, title |-> <<"Author", row.Author>>,
                   color |-> "#1f78b4"]
         IN  [g EXCEPT
                !.nodes = IF row.Author \in NodeIds(g)
                          THEN [p \in 1..Len(g.nodes) |->
                                   IF g.nodes[p].id = row.Author THEN n ELSE g.nodes[p]]
                          ELSE Append(g.nodes, n),
                !.added_nodes = @ \cup {row.Author}]

\* Lines 206-209: the author node.
AddAuthorNode(g, row) ==
    IF Truthy(row.Author) /\ row.Author \notin g.added_nodes
    THEN added(add_node(g, row.Author, <<"Author", row.Author>>, "#1f78b4"), row.Author)
    ELSE g

\* Lines 211-215: the policy node.
AddPolicyNode(g, row) ==
    IF Truthy(row.PolicyArea) /\ row.PolicyArea \notin g.added_nodes
    THEN added(add_node(g, row.PolicyArea, <<"Policy Area", row.PolicyArea>>, "#33a02c"),
               row.PolicyArea)
    ELSE g

\* Lines 217-221: the two edges of a record.
AddEdges(g, row) ==
    LET g1 == IF Truthy(row.Author) THEN add_edge(g, row.Author, row.Title) ELSE g
    IN  IF Truthy(row.PolicyArea) THEN add_edge(g1, row.Title, row.PolicyArea) ELSE g1

\* The body of the loop of line 183, for the records of the frame in order.
RECURSIVE GraphRows(_, _)
GraphRows(g, rows) ==
    IF rows = <<>> THEN g
    ELSE GraphRows(
            AddEdges(AddPolicyNode(AddAuthorNode(AddBillNode(g, Head(rows)), Head(rows)),
                                   Head(rows)),
                     Head(rows)),
            Tail(rows))

\* create_network_graph: the nodes and edges of the returned Network, or the
\* exception that ended the call.
create_network_graph(frame) ==
    LET g == GraphRows([nodes |-> <<>>, edges |-> <<>>, raised |-> "", added_nodes |-> {}],
                       frame)
    IN  [nodes |-> g.nodes, edges |-> g.edges, raised |-> g.raised]

----------------------------------------------------------------------------
(* create_sankey_diagram *)

\* Python's order on str: by code point, a proper prefix first.
RECURSIVE StrLess(_, _)
StrLess(s, t) ==
    IF t = <<>> THEN FALSE
    ELSE IF s = <<>> THEN TRUE
    ELSE IF Ord(Head(s)) # Ord(Head(t)) THEN Ord(Head(s)) < Ord(Head(t))
    ELSE StrLess(Tail(s), Tail(t))

\* sorted(values)
RECURSIVE sorted(_)
sorted(S) ==
    IF S = {} THEN <<>>
    ELSE LET m == CHOOSE x \in S : \A y \in S \ {x} : StrLess(x, y)
         IN  <<m>> \o sorted(S \ {m})

\* i of enumerate(labels) at label x.
EnumIndex(labels, x) == (CHOOSE i \in 1..Len(labels) : labels[i] = x) - 1

\* Lines 289-294: the three index dictionaries.
author_indices(authors, a) == EnumIndex(authors, a)

policy_indices_no_offset(authors, policies, p) == EnumIndex(policies, p)

policy_indices(authors, policies, p) == EnumIndex(policies, p) + Len(authors)

method_indices(authors, policies, methods, m) ==
    EnumIndex(methods, m) + Len(authors) + Len(policies)

\* One link per distinct pair: a repeated pair is not appended again.
RECURSIVE AuthorPolicyLinksOnce(_, _, _)
AuthorPolicyLinksOnce(rows, authors, policies) ==
    IF rows = <<>> THEN <<>>
    ELSE LET r == rows[Len(rows)]
             before == AuthorPolicyLinksOnce(SubSeq(rows, 1, Len(rows) - 1), authors, policies)
         IN  IF notna(r.Author) /\ notna(r.PolicyArea)
             THEN LET l == [source |-> author_indices(authors, r.Author),
                            target |-> policy_indices(authors, policies, r.PolicyArea),
                            value  |-> 1]
                  IN  IF l \in SeqToSet(before) THEN before ELSE Append(before, l)
             ELSE before

\* Lines 300-306: one link of value 1 per record with an author and a policy.
RECURSIVE AuthorPolicyLinks(_, _, _)
AuthorPolicyLinks(rows, authors, policies) ==
    IF rows = <<>> THEN <<>>
    ELSE LET r == Head(rows)
             rest == AuthorPolicyLinks(Tail(rows), authors, policies)
         IN  IF notna(r.Author) /\ notna(r.PolicyArea)
             THEN <<[source |-> author_indices(authors, r.Author),
                     target |-> policy_indices(authors, policies, r.PolicyArea),
                     value  |-> 1]>> \o rest
             ELSE rest

\* Lines 308-314: one link of value 1 per record with a policy and a method.
RECURSIVE PolicyMethodLinks(_, _, _, _)
PolicyMethodLinks(rows, authors, policies, methods) ==
    IF rows = <<>> THEN <<>>
    ELSE LET r == Head(rows)
             rest == PolicyMethodLinks(Tail(rows), authors, policies, methods)
         IN  IF notna(r.PolicyArea) /\ notna(r.EnactmentMethod)
             THEN <<[source |-> policy_indices(authors, policies, r.PolicyArea),
                     target |-> method_indices(authors, policies, methods,
                                               r.EnactmentMethod),
                     value  |-> 1]>> \o rest
             ELSE rest

\* create_sankey_diagram: the node labels and the links of the figure.
create_sankey_diagram(frame) ==
    LET authors  == sorted(Unique(frame, "Author"))
        policies == sorted(Unique(frame, "Policy Area"))
        methods  == sorted(Unique(frame, "Enactment Method"))
    IN  [labels |-> authors \o policies \o methods,
         links  |-> AuthorPolicyLinks(frame, authors, policies)
                    \o PolicyMethodLinks(frame, authors, policies, methods)]

----------------------------------------------------------------------------
(* generate_scatter_plot *)

\* Line 572: the columns the select boxes of main() offer.
axis_options == {"Policy Area", "Date", "Author", "Enactment Method"}

\* px.scatter: one point per record, with the hover columns of lines 104-110.
Point(r, x_col, y_col, color_col) ==
    [x |-> Col(r, x_col), y |-> Col(r, y_col), color |-> Col(r, color_col),
     Title |-> r.Title, Link |-> r.Link, EnactmentMethod |-> r.EnactmentMethod,
     Date |-> r.Date]

\* generate_scatter_plot: px.scatter raises ValueError for an argument that
\* names no column of the frame; the function itself checks nothing.
generate_scatter_plot(frame, x_col, y_col, color_col) ==
    IF {x_col, y_col, color_col} \subseteq Columns
    THEN [x_col |-> x_col, y_col |-> y_col, color_col |-> color_col,
          points |-> [p \in 1..Len(frame) |-> Point(frame[p], x_col, y_col, color_col)],
          raised |-> ""]
    ELSE [x_col |-> x_col, y_col |-> y_col, color_col |-> color_col,
          points |-> <<>>, raised |-> "ValueError"]

----------------------------------------------------------------------------
(* create_timeline_plot *)

\* temp_df["Date"] + pd.Timedelta(days=1): the same time of day, one day on;
\* NaT stays NaT.
plus_one_day(ts) == IF isna(ts) THEN NaT ELSE <<ts[1] + 1, ts[2]>>

\* One bar of px.timeline: x_start, x_end, y, color and the hover columns.
Interval(r) ==
    [Start |-> r.Date, End |-> plus_one_day(r.Date), Title |-> r.Title,
     Author |-> r.Author, PolicyArea |-> r.PolicyArea,
     EnactmentMethod |-> r.EnactmentMethod, Link |-> r.Link]

\* create_timeline_plot: the Start and End columns are computed on a copy of
\* the frame and px.timeline draws one bar per record.  The function tests
\* nothing: of a frame without records it returns a chart without bars.
create_timeline_plot(frame) ==
    [intervals |-> [p \in 1..Len(frame) |-> Interval(frame[p])], raised |-> ""]

----------------------------------------------------------------------------
(* The view builders on the frames main() hands them *)

\* Sheets for the builders: two authors of one bill, a label used in two
\* categories, an empty author cell, an author list ending in a comma, the
\* same author twice, an empty policy and method cell, an undated bill.
ViewRows ==
    { [Authors |-> <<"A">>, Date |-> <<"datetime", 1, 0>>, PolicyArea |-> <<"X">>,
       TitleAndLink |-> <<"http://u", " ", "T">>, EnactmentMethod |-> <<"S">>,
       Link |-> <<"u">>],
      [Authors |-> <<"A", ",", " ", "B">>, Date |-> <<"datetime", 2, 12>>,
       PolicyArea |-> <<"X">>, TitleAndLink |-> <<"T">>,
       EnactmentMethod |-> <<"S">>, Link |-> None],
      [Authors |-> <<"B">>, Date |-> <<"datetime", 1, 0>>, PolicyArea |-> <<"A">>,
       TitleAndLink |-> <<"T">>, EnactmentMethod |-> <<"X">>, Link |-> None],
      [Authors |-> <<"A">>, Date |-> <<"datetime", 2, 0>>, PolicyArea |-> <<"X">>,
       TitleAndLink |-> <<"A">>, EnactmentMethod |-> <<"S">>, Link |-> None],
      [Authors |-> NaN, Date |-> <<"datetime", 1, 0>>, PolicyArea |-> <<"X">>,
       TitleAndLink |-> <<"T">>, EnactmentMethod |-> NaN, Link |-> None],
      [Authors |-> <<"A", ",">>, Date |-> <<"datetime", 1, 0>>, PolicyArea |-> NaN,
       TitleAndLink |-> <<"B">>, EnactmentMethod |-> <<"S">>, Link |-> None],
      [Authors |-> <<"A", ",", "A">>, Date |-> <<"datetime", 1, 0>>,
       PolicyArea |-> <<"X">>, TitleAndLink |-> <<"T">>,
       EnactmentMethod |-> <<"S">>, Link |-> None],
      [Authors |-> <<"B">>, Date |-> <<"missing">>, PolicyArea |-> <<"X">>,
       TitleAndLink |-> <<"T">>, EnactmentMethod |-> <<"S">>, Link |-> None] }

\* The column names a caller of generate_scatter_plot may pass: the four of
\* axis_options, another column of the frame, and a name of no column.
ScatterArgs == axis_options \cup {"Title", "Bill Number"}

InitView ==
    /\ pc = "start"
    /\ \E n \in 0..MaxRows : raw \in [1..n -> ViewRows]
    /\ df = <<>>
    /\ data = <<>>
    /\ sel = NoSel
    /\ filtered_data = <<>>
    /\ adv_sel = NoSel
    /\ adv_data = <<>>
    /\ net = NoNet
    /\ sankey = NoSankey
    /\ scatter = NoScatter
    /\ timeline = NoTimeline

\* Lines 479-481.
CreateNetworkGraph ==
    /\ pc = "filtered"
    /\ filtered_data # <<>>
    /\ net' = create_network_graph(filtered_data)
    /\ pc' = "graph"
    /\ UNCHANGED <<raw, df, data, sel, filtered_data, adv_sel, adv_data, sankey, scatter, timeline>>

\* Lines 596-598.
CreateSankeyDiagram ==
    /\ pc = "filtered"
    /\ filtered_data # <<>>
    /\ sankey' = create_sankey_diagram(filtered_data)
    /\ pc' = "sankey"
    /\ UNCHANGED <<raw, df, data, sel, filtered_data, adv_sel, adv_data, net, scatter, timeline>>

\* A call of generate_scatter_plot (lines 498-504 and 581-589 are two).
GenerateScatterPlot ==
    /\ pc = "filtered"
    /\ filtered_data # <<>>
    /\ \E x_col \in ScatterArgs, y_col \in ScatterArgs, color_col \in ScatterArgs :
          scatter' = generate_scatter_plot(filtered_data, x_col, y_col, color_col)
    /\ pc' = "scatter"
    /\ UNCHANGED <<raw, df, data, sel, filtered_data, adv_sel, adv_data, net, sankey,
                   timeline>>

NextView ==
    \/ LoadData
    \/ GetFilteredData
    \/ MainNoData
    \/ SeeAll
    \/ CreateNetworkGraph
    \/ CreateSankeyDiagram
    \/ GenerateScatterPlot

SpecView == InitView /\ [][NextView]_vars

----------------------------------------------------------------------------
(* The timeline on the results of the basic filter *)

InitTimeline ==
    /\ pc = "start"
    /\ \E n \in 0..MaxRows : raw \in [1..n -> FilterRows]
    /\ df = <<>>
    /\ data = <<>>
    /\ sel = NoSel
    /\ filtered_data = <<>>
    /\ adv_sel = NoSel
    /\ adv_data = <<>>
    /\ net = NoNet
    /\ sankey = NoSankey
    /\ scatter = NoScatter
    /\ timeline = NoTimeline

\* Lines 603-608 of main(): the timeline of a filter result that has records,
\* a notice and no call for one that has none.
TimelineView ==
    /\ pc = "filtered"
    /\ IF filtered_data # <<>>
       THEN /\ timeline' = create_timeline_plot(filtered_data)
            /\ pc' = "timeline"
       ELSE /\ timeline' = timeline
            /\ pc' = "timeline_info"
    /\ UNCHANGED <<raw, df, data, sel, filtered_data, adv_sel, adv_data, net, sankey,
                   scatter>>

\* A call of create_timeline_plot on a filter result, with or without
\* records, by a caller that does not test the frame first as main() does.
CreateTimelinePlot ==
    /\ pc = "filtered"
    /\ timeline' = create_timeline_plot(filtered_data)
    /\ pc' = "called"
    /\ UNCHANGED <<raw, df, data, sel, filtered_data, adv_sel, adv_data, net, sankey,
                   scatter>>

NextTimeline ==
    \/ LoadData
    \/ GetFilteredData
    \/ MainNoData
    \/ SeeAll
    \/ BasicFilter
    \/ TimelineView
    \/ CreateTimelinePlot

SpecTimeline == InitTimeline /\ [][NextTimeline]_vars

----------------------------------------------------------------------------
(* Properties of the normalizer *)

Loaded == pc \in {"loaded", "ready"}

\* The records of df that came from sheet row i (pandas index label i - 1).
RECURSIVE RowsOf(_, _)
RowsOf(frame, label) ==
    IF frame = <<>> THEN <<>>
    ELSE IF Head(frame).Index = label
         THEN <<Head(frame)>> \o RowsOf(Tail(frame), label)
         ELSE RowsOf(Tail(frame), label)

CommaPositions(s) == {p \in 1..Len(s) : s[p] = ","}

\* Token j of s, read off the comma positions: the text strictly between the
\* (j-1)-th and the j-th comma (position 0 and Len(s) + 1 at the two ends).
TokenAt(s, j) ==
    LET P      == CommaPositions(s)
        before == IF j = 1 THEN 0
                  ELSE CHOOSE p \in P : Cardinality({q \in P : q < p}) = j - 2
        after  == IF j = Cardinality(P) + 1 THEN Len(s) + 1
                  ELSE CHOOSE p \in P : Cardinality({q \in P : q < p}) = j - 1
    IN  SubSeq(s, before + 1, after - 1)

\* t is tok without its surrounding whitespace.
IsTrimOf(t, tok) ==
    /\ t = <<>> \/ (t[1] \notin Whitespace /\ t[Len(t)] \notin Whitespace)
    /\ \E a \in 0..Len(tok) : \E b \in 0..(Len(tok) - a) :
          /\ \A p \in 1..a : tok[p] \in Whitespace
          /\ \A p \in (Len(tok) - b + 1)..Len(tok) : tok[p] \in Whitespace
          /\ t = SubSeq(tok, a + 1, Len(tok) - b)

\* C1: a sheet row whose author cell holds k comma-separated tokens gives
\* exactly k records, in token order and in sheet-row order, whose authors are
\* the trimmed tokens and whose date, policy area, enactment method, title and
\* link are those of the sheet row.
C1_AuthorExplosion ==
    Loaded =>
        /\ \A p \in 1..Len(df) : \A q \in 1..Len(df) :
              p < q => df[p].Index <= df[q].Index
        /\ \A i \in 1..Len(raw) :
              notna(raw[i].Authors) =>
                 LET k     == Cardinality(CommaPositions(raw[i].Authors)) + 1
                     block == RowsOf(df, i - 1)
                 IN  /\ Len(block) = k
                     /\ \A j \in 1..Len(block) :
                           /\ IsTrimOf(block[j].Author, TokenAt(raw[i].Authors, j))
                           /\ block[j].Date = to_datetime_coerce(raw[i].Date)
                           /\ block[j].PolicyArea = raw[i].PolicyArea
                           /\ block[j].EnactmentMethod = raw[i].EnactmentMethod
                           /\ block[j].Title = ExtractTitle(raw[i].TitleAndLink)
                           /\ block[j].Link = raw[i].Link

\* Two sheet rows were loaded, the first with three tokens padded by blanks.
C1_Witness ==
    /\ pc = "loaded"
    /\ Len(raw) = 2
    /\ raw[1].Authors = <<" ", "A", " ", ",", "B", " ">>
    /\ raw[2].Authors = <<"A", ",", ",", "B">>
    /\ Len(df) = 5

\* C8: a sheet row whose date cell is empty or no date gives records with an
\* absent date (load_data has no failing outcome), and every record of the
\* working set returned by get_filtered_data has a date.
C8_WorkingSetDated ==
    /\ Loaded =>
          \A i \in 1..Len(raw) :
             raw[i].Date[1] \in {"missing", "text"} =>
                /\ RowsOf(df, i - 1) # <<>>
                /\ \A j \in 1..Len(RowsOf(df, i - 1)) : RowsOf(df, i - 1)[j].Date = NaT
    /\ pc = "ready" => \A p \in 1..Len(data) : data[p].Date # NaT

\* The working set was computed from a sheet with a dated and an undated row.
C8_Witness ==
    /\ pc = "ready"
    /\ \E i \in 1..Len(raw) : raw[i].Date[1] = "missing"
    /\ \E p \in 1..Len(df) : df[p].Date = NaT
    /\ Len(data) >= 1
    /\ Len(data) < Len(df)

\* C9 as stated: every record of load_data has an author that is absent or a
\* trimmed, non-empty text.
C9_AuthorNonEmpty ==
    Loaded =>
        \A p \in 1..Len(df) :
            \/ df[p].Author = NaN
            \/ /\ df[p].Author # <<>>
               /\ df[p].Author[1] \notin Whitespace
               /\ df[p].Author[Len(df[p].Author)] \notin Whitespace

----------------------------------------------------------------------------
(* Properties of the filter *)

\* The index labels of a frame.
Labels(frame) == {frame[p].Index : p \in 1..Len(frame)}

\* The predicate of the filter contract on record r and widget values w: each
\* facet is a wildcard when empty, and the calendar date of r lies in
\* [start, end], both ends included.
Selected(r, w) ==
    /\ w.author = {} \/ r.Author \in w.author
    /\ w.policy = {} \/ r.PolicyArea \in w.policy
    /\ w.method = {} \/ r.EnactmentMethod \in w.method
    /\ w.date_range[1] <= DateOf(r.Date)
    /\ DateOf(r.Date) <= w.date_range[2]

\* C2 as stated: a record of the working set is in the filter result exactly
\* when it satisfies the predicate, for the basic and for the advanced filter;
\* a record dated on the end date is included.
C2_FilterPredicate ==
    /\ (pc \in {"filtered", "advanced"} /\ ~sel.show_all) =>
          \A p \in 1..Len(data) :
             data[p].Index \in Labels(filtered_data) <=> Selected(data[p], sel)
    /\ (pc = "advanced" /\ ~adv_sel.show_all) =>
          \A p \in 1..Len(data) :
             data[p].Index \in Labels(adv_data) <=> Selected(data[p], adv_sel)

\* No facet is selected and the date interval is the full observed range.
IsDefault(w) ==
    /\ ~w.show_all
    /\ w.author = {} /\ w.policy = {} /\ w.method = {}
    /\ w.date_range = <<min_date(data), max_date(data)>>

\* C3 as stated: with no facet selected and the full observed date range the
\* filter returns the whole working set, in order.
C3_FilterIdentity ==
    /\ (pc \in {"filtered", "advanced"} /\ IsDefault(sel)) => filtered_data = data
    /\ (pc = "advanced" /\ IsDefault(adv_sel)) => adv_data = data

----------------------------------------------------------------------------
(* Properties of the relationship graph *)

\* The distinct labels of a column that are present: not null and not "".
Present(frame, name) == Unique(frame, name) \ {<<>>}

SamePair(e, a, b) == (e.from = a /\ e.to = b) \/ (e.from = b /\ e.to = a)

EdgeCount(g, a, b) == Cardinality({p \in 1..Len(g.edges) : SamePair(g.edges[p], a, b)})

\* C4 as stated: the graph of a non-empty record set with M distinct titles,
\* A distinct present authors and P distinct present policy areas has exactly
\* M + A + P nodes.
C4_NodeCount ==
    (pc = "graph" /\ net.raised = "") =>
        Len(net.nodes) = Cardinality(Unique(filtered_data, "Title"))
                         + Cardinality(Present(filtered_data, "Author"))
                         + Cardinality(Present(filtered_data, "Policy Area"))

\* C5: the edges of the graph hold no pair of nodes twice, and the pair
\* (author, title) and the pair (title, policy area) of a record is there
\* exactly once however many records share it.
C5_EdgeIdempotent ==
    pc = "graph" =>
        /\ \A p \in 1..Len(net.edges) : \A q \in 1..Len(net.edges) :
              p # q => ~SamePair(net.edges[p], net.edges[q].from, net.edges[q].to)
        /\ net.raised = "" =>
              \A p \in 1..Len(filtered_data) :
                 LET r == filtered_data[p]
                 IN  /\ (IsStr(r.Author) /\ r.Author # <<>>) =>
                            EdgeCount(net, r.Author, r.Title) = 1
                     /\ (IsStr(r.PolicyArea) /\ r.PolicyArea # <<>>) =>
                            EdgeCount(net, r.Title, r.PolicyArea) = 1

\* A graph was built from two records that share author and title.
C5_Witness ==
    /\ pc = "graph"
    /\ net.raised = ""
    /\ \E p \in 1..Len(filtered_data) : \E q \in 1..Len(filtered_data) :
          /\ p < q
          /\ filtered_data[p].Author = filtered_data[q].Author
          /\ filtered_data[p].Title = filtered_data[q].Title
          /\ IsStr(filtered_data[p].Author) /\ filtered_data[p].Author # <<>>
          /\ EdgeCount(net, filtered_data[p].Author, filtered_data[p].Title) = 1

\* The three categories of node, in the order the loop of line 183 takes
\* them within a record: the label's column, its tooltip heading, its colour.
CategoryColumn(c) == <<"Title", "Author", "Policy Area">>[c]
CategoryName(c) == <<"Bill", "Author", "Policy Area">>[c]
CategoryColor(c) == <<"#ffa500", "#1f78b4", "#33a02c">>[c]

\* The steps <<record, category>> of the loop at which the label s is offered
\* as a node: a title always, an author or a policy area when it is truthy.
Steps(frame, s) ==
    {o \in (1..Len(frame)) \X (1..3) :
        /\ Col(frame[o[1]], CategoryColumn(o[2])) = s
        /\ o[2] = 1 \/ Truthy(s)}

StepBefore(a, b) == a[1] < b[1] \/ (a[1] = b[1] /\ a[2] <= b[2])

CategoriesOf(frame, s) == {o[2] : o \in Steps(frame, s)}

\* The first step at which s is offered under category c.
FirstStep(frame, s, c) ==
    CHOOSE o \in Steps(frame, s) :
        o[2] = c /\ \A u \in Steps(frame, s) : u[2] = c => StepBefore(o, u)

\* Of the categories s occurs in, the one the loop meets first and the one
\* it meets last.
EarlierCategory(frame, s) ==
    CHOOSE c \in CategoriesOf(frame, s) :
        \A e \in CategoriesOf(frame, s) :
            StepBefore(FirstStep(frame, s, c), FirstStep(frame, s, e))
LaterCategory(frame, s) ==
    CHOOSE c \in CategoriesOf(frame, s) :
        \A e \in CategoriesOf(frame, s) :
            StepBefore(FirstStep(frame, s, e), FirstStep(frame, s, c))

\* The strings that are a label in two categories of the record set.
Colliding(frame) ==
    {s \in Unique(frame, "Title") \cup Unique(frame, "Author")
                                  \cup Unique(frame, "Policy Area") :
        IsStr(s) /\ Cardinality(CategoriesOf(frame, s)) >= 2}

NodesOf(g, s) == {p \in 1..Len(g.nodes) : g.nodes[p].id = s}

Shows(n, c) == n.color = CategoryColor(c) /\ n.title[1] = CategoryName(c)

\* C12 as stated: a string that is a label in two categories of the record
\* set has a single node in the graph create_network_graph returns, and the
\* node shows the colour and the tooltip of the category processed later.
C12_LaterCategoryOverwrites ==
    (pc = "graph" /\ net.raised = "") =>
        \A s \in Colliding(filtered_data) :
            /\ Cardinality(NodesOf(net, s)) = 1
            /\ \A p \in NodesOf(net, s) :
                   Shows(net.nodes[p], LaterCategory(filtered_data, s))

\* C12, amended: the graph never holds two nodes for one string; every node
\* shows the colour and the tooltip of the category under which its string
\* was processed first, so that of a string in two categories the earlier
\* category is kept and the later one dropped; and the graph that is returned
\* holds exactly one node for such a string.
C12_FirstCategoryKept ==
    pc = "graph" =>
        /\ \A p \in 1..Len(net.nodes) :
              /\ NodesOf(net, net.nodes[p].id) = {p}
              /\ Shows(net.nodes[p], EarlierCategory(filtered_data, net.nodes[p].id))
        /\ net.raised = "" =>
              \A s \in Colliding(filtered_data) : Cardinality(NodesOf(net, s)) = 1

\* A graph was returned for a record set in which a string is a label in two
\* categories, and its node shows the earlier and not the later one.
C12_Witness ==
    /\ pc = "graph"
    /\ net.raised = ""
    /\ \E s \in Colliding(filtered_data) : \E p \in NodesOf(net, s) :
          /\ EarlierCategory(filtered_data, s) # LaterCategory(filtered_data, s)
          /\ Shows(net.nodes[p], EarlierCategory(filtered_data, s))
          /\ ~Shows(net.nodes[p], LaterCategory(filtered_data, s))

----------------------------------------------------------------------------
(* Properties of the flow diagram *)

\* The sizes of the three layers, counted on the records.
NAuthors == Cardinality(Unique(filtered_data, "Author"))
NPolicies == Cardinality(Unique(filtered_data, "Policy Area"))
NMethods == Cardinality(Unique(filtered_data, "Enactment Method"))

\* The index in lo..hi-1 whose label is x.
IndexIn(lo, hi, x) == CHOOSE i \in lo..(hi - 1) : sankey.labels[i + 1] = x

RECURSIVE Weight(_, _, _)
Weight(links, s, t) ==
    IF links = <<>> THEN 0
    ELSE (IF Head(links).source = s /\ Head(links).target = t
          THEN Head(links).value ELSE 0) + Weight(Tail(links), s, t)

Records(name1, x, name2, y) ==
    {p \in 1..Len(filtered_data) :
        Col(filtered_data[p], name1) = x /\ Col(filtered_data[p], name2) = y}

\* C6: the weight of the flow from author a to policy p is the number of
\* records with author a and policy p, and the weight from policy p to method
\* m the number of records with policy p and method m (the links of value 1
\* between the same two nodes, added up).
C6_WeightIsCount ==
    pc = "sankey" =>
        /\ \A a \in Unique(filtered_data, "Author") :
           \A p \in Unique(filtered_data, "Policy Area") :
              Weight(sankey.links, IndexIn(0, NAuthors, a),
                     IndexIn(NAuthors, NAuthors + NPolicies, p))
                 = Cardinality(Records("Author", a, "Policy Area", p))
        /\ \A p \in Unique(filtered_data, "Policy Area") :
           \A m \in Unique(filtered_data, "Enactment Method") :
              Weight(sankey.links, IndexIn(NAuthors, NAuthors + NPolicies, p),
                     IndexIn(NAuthors + NPolicies, NAuthors + NPolicies + NMethods, m))
                 = Cardinality(Records("Policy Area", p, "Enactment Method", m))

\* Two records with the same author and policy: the flow has weight 2.
C6_Witness ==
    /\ pc = "sankey"
    /\ Cardinality(Records("Author", <<"A">>, "Policy Area", <<"X">>)) = 2
    /\ Weight(sankey.links, IndexIn(0, NAuthors, <<"A">>),
              IndexIn(NAuthors, NAuthors + NPolicies, <<"X">>)) = 2

\* The labels of positions lo+1..hi are the set S in increasing order.
IsSortedLayer(lo, hi, S) ==
    /\ {sankey.labels[i] : i \in (lo + 1)..hi} = S
    /\ \A i \in (lo + 1)..(hi - 1) : StrLess(sankey.labels[i], sankey.labels[i + 1])

\* The records that give a link in the first and in the second pass.
RECURSIVE WithBoth(_, _, _)
WithBoth(rows, name1, name2) ==
    IF rows = <<>> THEN <<>>
    ELSE (IF notna(Col(Head(rows), name1)) /\ notna(Col(Head(rows), name2))
          THEN <<Head(rows)>> ELSE <<>>) \o WithBoth(Tail(rows), name1, name2)

\* C7: the labels are the sorted distinct non-null authors, then policy
\* areas, then enactment methods; the three index ranges follow one another;
\* every author->policy link runs from the author range to the policy range
\* and every policy->method link from the policy range to the method range,
\* and the labels at its two indices are those of its record.
C7_PositionalIndex ==
    pc = "sankey" =>
        LET n1 == NAuthors
            n2 == NAuthors + NPolicies
            n3 == NAuthors + NPolicies + NMethods
            ap == WithBoth(filtered_data, "Author", "Policy Area")
            pm == WithBoth(filtered_data, "Policy Area", "Enactment Method")
            L  == sankey.links
        IN  /\ Len(sankey.labels) = n3
            /\ IsSortedLayer(0, n1, Unique(filtered_data, "Author"))
            /\ IsSortedLayer(n1, n2, Unique(filtered_data, "Policy Area"))
            /\ IsSortedLayer(n2, n3, Unique(filtered_data, "Enactment Method"))
            /\ Len(L) = Len(ap) + Len(pm)
            /\ \A k \in 1..Len(ap) :
                  /\ L[k].source \in 0..(n1 - 1)
                  /\ L[k].target \in n1..(n2 - 1)
                  /\ sankey.labels[L[k].source + 1] = ap[k].Author
                  /\ sankey.labels[L[k].target + 1] = ap[k].PolicyArea
            /\ \A k \in 1..Len(pm) :
                  /\ L[Len(ap) + k].source \in n1..(n2 - 1)
                  /\ L[Len(ap) + k].target \in n2..(n3 - 1)
                  /\ sankey.labels[L[Len(ap) + k].source + 1] = pm[k].PolicyArea
                  /\ sankey.labels[L[Len(ap) + k].target + 1] = pm[k].EnactmentMethod

\* A diagram with links of both passes whose author layer and policy layer
\* share a label, and whose policy layer and method layer share one.
C7_Witness ==
    /\ pc = "sankey"
    /\ Unique(filtered_data, "Author") \cap Unique(filtered_data, "Policy Area") # {}
    /\ Unique(filtered_data, "Policy Area") \cap Unique(filtered_data, "Enactment Method") # {}
    /\ WithBoth(filtered_data, "Author", "Policy Area") # <<>>
    /\ WithBoth(filtered_data, "Policy Area", "Enactment Method") # <<>>

----------------------------------------------------------------------------
(* Properties of the scatter builder *)

\* C10 as stated: a call of generate_scatter_plot whose x, y or colour column
\* is none of policy area, date, author and enactment method fails and
\* gives no points.
C10_FieldValidation ==
    (pc = "scatter"
       /\ ~({scatter.x_col, scatter.y_col, scatter.color_col} \subseteq axis_options)) =>
        /\ scatter.raised # ""
        /\ scatter.points = <<>>

----------------------------------------------------------------------------
(* Properties of the timeline builder *)

\* C11 as stated: create_timeline_plot called on a record set without
\* records fails and returns no timeline; called on one with records it
\* returns exactly one interval per record, which starts at the record's
\* date and ends one day later.
C11_TimelineEmptyFails ==
    pc = "called" =>
        IF filtered_data = <<>>
        THEN timeline.raised # "" /\ timeline.intervals = <<>>
        ELSE /\ timeline.raised = ""
             /\ Len(timeline.intervals) = Len(filtered_data)
             /\ \A p \in 1..Len(filtered_data) :
                   /\ timeline.intervals[p].Start = filtered_data[p].Date
                   /\ timeline.intervals[p].End[1] = filtered_data[p].Date[1] + 1
                   /\ timeline.intervals[p].End[2] = filtered_data[p].Date[2]

=============================================================================
